---- MODULE Spec2Model ----
(***************************************************************************)
(* ModelHandler of src/src/core/model_handler.py: the train() loop with    *)
(* early stopping and checkpointing, test() with its restore of the saved  *)
(* network, and _run_epoch with its meters and prediction lists.           *)
(*                                                                         *)
(* One ModelHandler is constructed, then train() and test() are called in  *)
(* that order.  The numeric model (Model.predict, the optimizer, the       *)
(* scheduler) is the environment: each batch's loss, metric and size are   *)
(* inputs drawn from small sets.                                           *)
(***************************************************************************)
EXTENDS Integers, Sequences, FiniteSets, TLC

\* ------------------------------------------------------------------ bounds
MaxEpochs == 3          \* config['max_epochs'] ranges over 0..MaxEpochs
MaxPatience == 2        \* config['patience'] ranges over 0..MaxPatience
MaxSavedEpoch == 1      \* model.saved_epoch of a pretrained model, 1..MaxSavedEpoch
MaxBatches == 1         \* get_num_batch() of a loader

\* ------------------------------------------------------------------ inputs
BatchSizes == {2}       \* x_batch['batch_size'] of a non-empty batch
Metrics == {0, 1}       \* metrics[eary_stop_metric] of a batch
Losses == {1}           \* res['loss'] of a batch; only the loss meters read it

\* ------------------------------------------------------------------ values
None == <<>>

\* The epoch test() passes to model.save when config['only_test'] is set.
OnlyTestEpoch == 100

\* A ratio in [0, 1]: Zero is 0.0 and <<k>> is 2^-k.  On these values min and
\* ** are exact.
Zero == <<>>
RatioPow(r, p) == IF r = Zero THEN Zero ELSE <<r[1] * p>>
RatioMin(a, b) ==
  IF a = Zero \/ b = Zero THEN Zero
  ELSE IF a[1] >= b[1] THEN a ELSE b

RECURSIVE GCD(_, _)
GCD(a, b) == IF b = 0 THEN a ELSE GCD(b, a % b)

\* AverageMeter: the running weighted sum and the weight.
ZeroMeter == [sum |-> 0, count |-> 0]
MeterUpdate(m, val, n) == [sum |-> m.sum + val * n, count |-> m.count + n]
\* mean() as an exact fraction <<numerator, denominator>> in lowest terms;
\* an empty meter's mean is 0.
MeterMean(m) ==
  IF m.count = 0 THEN <<0, 1>>
  ELSE LET g == GCD(m.sum, m.count)
       IN IF g = 0 THEN <<0, 1>> ELSE <<m.sum \div g, m.count \div g>>
\* <= and < on such fractions.
FracLeq(a, b) == a[1] * b[2] <= b[1] * a[2]
FracLess(a, b) == a[1] * b[2] < b[1] * a[2]

\* The reinforcement-learning settings of config that train() reads.
RLConfigs ==
  { [rl_ratio |-> Zero,  rl_start_epoch |-> 1, max_rl_ratio |-> <<0>>, rl_ratio_power |-> 1],
    [rl_ratio |-> <<1>>, rl_start_epoch |-> 2, max_rl_ratio |-> <<3>>, rl_ratio_power |-> 2] }

\* What vectorize_input and model.predict give for one batch; batch_size 0
\* is a batch without examples (x_batch is falsy).
Batches ==
  {[batch_size |-> 0, loss |-> 0, metric |-> 0]} \cup
  [batch_size : BatchSizes, loss : Losses, metric : Metrics]

Loaders == {None} \cup {<<MaxBatches>>}
get_num_batch(loader) == IF loader = None THEN 0 ELSE loader[1]

VARIABLES
  config,             \* self.config
  saved_epoch,        \* self.model.saved_epoch: the epoch of the loaded checkpoint
  train_loader, dev_loader, test_loader,
  is_test,
  _epoch, _best_epoch, _best_metrics,
  _train_loss, _dev_loss, _train_metrics, _dev_metrics,
  _n_train_examples,
  network,            \* self.model.network: the epoch whose updates made it
  saved_file,         \* the checkpoint file of self.dirname, None or <<[epoch, net]>>
  logger_closed,
  pc,                 \* where train() / test() stand
  step,               \* _run_epoch's loop variable
  rl_ratio,           \* train()'s local rl_ratio
  output, gold,       \* _run_epoch's lists
  evaluated,          \* the arguments evaluate_predictions was called with
  \* history
  epochs_run,         \* iterations of train()'s while loop so far
  save_log,           \* the epoch arguments of the model.save calls
  scheduler_steps,    \* the number of scheduler.step calls
  restores,           \* the number of init_saved_network calls
  run_best,           \* the largest dev mean of this train() so far
  since_strict,       \* completed epochs since one strictly above run_best
  since_weak,         \* completed epochs since one at or above run_best
  best_net,           \* network when train() last set _best_epoch
  test_preds, test_golds  \* predictions / targets of the non-empty test batches

meters == <<_train_loss, _dev_loss, _train_metrics, _dev_metrics>>
hist == <<epochs_run, save_log, scheduler_steps, restores, run_best,
          since_strict, since_weak, best_net, test_preds, test_golds>>
vars == <<config, saved_epoch, train_loader, dev_loader, test_loader, is_test, _epoch,
          _best_epoch, _best_metrics, meters, _n_train_examples, network,
          saved_file, logger_closed, pc, step, rl_ratio, output, gold,
          evaluated, hist>>

\* ------------------------------------------------------------- __init__
\* A pretrained model (pre > 0) was loaded from the checkpoint of its
\* directory.  The handler's directory is config['out_dir'], a new one, or,
\* when no out_dir is given, the pretrained model's own.
Init ==
  /\ \E pre \in 0..MaxSavedEpoch, rl \in RLConfigs, pat \in 0..MaxPatience,
        me \in 0..MaxEpochs, sp \in BOOLEAN, ot \in BOOLEAN, op \in BOOLEAN,
        out_dir \in BOOLEAN :
       /\ config = [pretrained |-> pre > 0,
                    patience |-> pat, max_epochs |-> me, save_params |-> sp,
                    only_test |-> ot, out_predictions |-> op,
                    rl_ratio |-> rl.rl_ratio, rl_start_epoch |-> rl.rl_start_epoch,
                    max_rl_ratio |-> rl.max_rl_ratio,
                    rl_ratio_power |-> rl.rl_ratio_power]
       /\ saved_epoch = pre
       /\ network = pre
       /\ saved_file = IF pre > 0 /\ ~out_dir
                       THEN <<[epoch |-> pre, net |-> pre]>> ELSE None
  /\ train_loader \in Loaders
  /\ dev_loader \in Loaders
  /\ test_loader \in Loaders
  /\ is_test = FALSE
  /\ _epoch = 0
  /\ _best_epoch = 0
  /\ _best_metrics = <<0, 1>>
  /\ _train_loss = ZeroMeter
  /\ _dev_loss = ZeroMeter
  /\ _train_metrics = ZeroMeter
  /\ _dev_metrics = ZeroMeter
  /\ _n_train_examples = 0
  /\ logger_closed = FALSE
  /\ pc = "idle"
  /\ step = 0
  /\ rl_ratio = Zero
  /\ output = <<>>
  /\ gold = <<>>
  /\ evaluated = None
  /\ epochs_run = 0
  /\ save_log = <<>>
  /\ scheduler_steps = 0
  /\ restores = 0
  /\ run_best = <<0, 1>>
  /\ since_strict = 0
  /\ since_weak = 0
  /\ best_net = network
  /\ test_preds = <<>>
  /\ test_golds = <<>>

\* ------------------------------------------------------------- helpers
\* _stop_condition with the max_epochs test one epoch late.
StopConditionLateMax(epoch, patience) ==
  LET no_improvement == epoch >= _best_epoch + patience
      exceeded_max_epochs == epoch > config.max_epochs
  IN IF exceeded_max_epochs \/ no_improvement THEN FALSE ELSE TRUE

\* _stop_condition with the patience test one epoch late.
StopConditionLatePatience(epoch, patience) ==
  LET no_improvement == epoch > _best_epoch + patience
      exceeded_max_epochs == epoch >= config.max_epochs
  IN IF exceeded_max_epochs \/ no_improvement THEN FALSE ELSE TRUE

\* _stop_condition(epoch, patience): True while training goes on.
_stop_condition(epoch, patience) ==
  LET no_improvement == epoch >= _best_epoch + patience
      exceeded_max_epochs == epoch >= config.max_epochs
  IN IF exceeded_max_epochs \/ no_improvement THEN FALSE ELSE TRUE

\* train()'s first test with `and` for `or`.
TrainSkipConditionBoth == train_loader = None /\ dev_loader = None

\* train()'s and test()'s first tests.
TrainSkipCondition == train_loader = None \/ dev_loader = None
TestSkipCondition == test_loader = None

\* train()'s test of the epoch with < for <=.
BestUpdateConditionStrict == FracLess(_best_metrics, MeterMean(_dev_metrics))

\* train()'s test of the epoch against the best so far.
BestUpdateCondition == FracLeq(_best_metrics, MeterMean(_dev_metrics))

\* model.save(dirname, epoch) writes the one checkpoint file of dirname.
SavedFileAfterSave(epoch) == <<[epoch |-> epoch, net |-> network]>>

\* res['predictions'] and x_batch['target_src'] of the batch at `at`.
Predictions(at, b) == [j \in 1..b.batch_size |-> <<"prediction", at, j>>]
TargetSrc(at, b) == [j \in 1..b.batch_size |-> <<"target", at, j>>]

\* _reset_metrics
ResetMetrics ==
  /\ _train_loss' = ZeroMeter
  /\ _dev_loss' = ZeroMeter
  /\ _train_metrics' = ZeroMeter
  /\ _dev_metrics' = ZeroMeter

\* One iteration of _run_epoch's loop on batch b.
RunEpochStep(b, training, out_predictions) ==
  LET mode == IF training THEN "train" ELSE IF is_test THEN "test" ELSE "dev"
  IN
  /\ step' = step + 1
  /\ IF b.batch_size = 0
     THEN UNCHANGED <<meters, _n_train_examples, network, output, gold>>
     ELSE
       /\ network' = IF training THEN _epoch ELSE network
       /\ IF training
          THEN /\ _train_loss' = IF b.loss # 0 THEN MeterUpdate(_train_loss, b.loss, 1)
                                 ELSE _train_loss
               /\ _train_metrics' = MeterUpdate(_train_metrics, b.metric * 100, b.batch_size)
               /\ UNCHANGED <<_dev_loss, _dev_metrics>>
          ELSE /\ _dev_loss' = IF b.loss # 0 THEN MeterUpdate(_dev_loss, b.loss, 1)
                               ELSE _dev_loss
               /\ _dev_metrics' = MeterUpdate(_dev_metrics, b.metric * 100, b.batch_size)
               /\ UNCHANGED <<_train_loss, _train_metrics>>
       /\ _n_train_examples' = IF training THEN _n_train_examples + b.batch_size
                               ELSE _n_train_examples
       /\ IF mode = "test" /\ out_predictions
          THEN /\ output' = output \o Predictions(step, b)
               /\ gold' = gold \o TargetSrc(step, b)
          ELSE UNCHANGED <<output, gold>>

\* --------------------------------------------------------------- train()
TrainSkipped ==
  /\ pc = "idle"
  /\ TrainSkipCondition
  /\ pc' = "trained"
  /\ UNCHANGED <<config, saved_epoch, train_loader, dev_loader, test_loader, is_test, _epoch,
                 _best_epoch, _best_metrics, meters, _n_train_examples, network,
                 saved_file, logger_closed, step, rl_ratio, output, gold,
                 evaluated, hist>>

TrainBegin ==
  /\ pc = "idle"
  /\ ~TrainSkipCondition
  /\ is_test' = FALSE
  /\ _epoch' = IF config.pretrained THEN saved_epoch ELSE 0
  /\ _best_epoch' = _epoch'
  /\ _best_metrics' = MeterMean(_dev_metrics)
  /\ ResetMetrics
  /\ pc' = "loop"
  /\ run_best' = MeterMean(_dev_metrics)
  /\ since_strict' = 0
  /\ since_weak' = 0
  /\ best_net' = network
  /\ UNCHANGED <<config, saved_epoch, train_loader, dev_loader, test_loader,
                 _n_train_examples, network, saved_file, logger_closed, step,
                 rl_ratio, output, gold, evaluated, epochs_run, save_log,
                 scheduler_steps, restores, test_preds, test_golds>>

\* The while test succeeds: the epoch starts with its training pass.
EpochBegin ==
  /\ pc = "loop"
  /\ _stop_condition(_epoch, config.patience)
  /\ _epoch' = _epoch + 1
  /\ rl_ratio' = IF _epoch' >= config.rl_start_epoch THEN config.rl_ratio ELSE Zero
  /\ pc' = "train_epoch"
  /\ step' = 0
  /\ output' = <<>>
  /\ gold' = <<>>
  /\ epochs_run' = epochs_run + 1
  /\ UNCHANGED <<config, saved_epoch, train_loader, dev_loader, test_loader, is_test,
                 _best_epoch, _best_metrics, meters, _n_train_examples, network,
                 saved_file, logger_closed, evaluated, save_log,
                 scheduler_steps, restores, run_best, since_strict, since_weak,
                 best_net, test_preds, test_golds>>

TrainBatch ==
  /\ pc = "train_epoch"
  /\ step < get_num_batch(train_loader)
  /\ \E b \in Batches : RunEpochStep(b, TRUE, FALSE)
  /\ UNCHANGED <<config, saved_epoch, train_loader, dev_loader, test_loader, is_test, _epoch,
                 _best_epoch, _best_metrics, saved_file, logger_closed, pc,
                 rl_ratio, evaluated, hist>>

\* The training pass returns and the validation pass starts.
DevEpochBegin ==
  /\ pc = "train_epoch"
  /\ step = get_num_batch(train_loader)
  /\ pc' = "dev_epoch"
  /\ step' = 0
  /\ output' = <<>>
  /\ gold' = <<>>
  /\ UNCHANGED <<config, saved_epoch, train_loader, dev_loader, test_loader, is_test, _epoch,
                 _best_epoch, _best_metrics, meters, _n_train_examples, network,
                 saved_file, logger_closed, rl_ratio, evaluated, hist>>

DevBatch ==
  /\ pc = "dev_epoch"
  /\ step < get_num_batch(dev_loader)
  /\ \E b \in Batches : RunEpochStep(b, FALSE, FALSE)
  /\ UNCHANGED <<config, saved_epoch, train_loader, dev_loader, test_loader, is_test, _epoch,
                 _best_epoch, _best_metrics, saved_file, logger_closed, pc,
                 rl_ratio, evaluated, hist>>

\* The validation pass returns: scheduler step, best update, checkpoint,
\* meter reset and the decay of config['rl_ratio'].
EpochEnd ==
  /\ pc = "dev_epoch"
  /\ step = get_num_batch(dev_loader)
  /\ scheduler_steps' = scheduler_steps + 1
  /\ IF BestUpdateCondition
     THEN /\ _best_epoch' = _epoch
          /\ _best_metrics' = MeterMean(_dev_metrics)
          /\ best_net' = network
          /\ IF config.save_params
             THEN /\ saved_file' = SavedFileAfterSave(_epoch)
                  /\ save_log' = Append(save_log, _epoch)
             ELSE UNCHANGED <<saved_file, save_log>>
     ELSE UNCHANGED <<_best_epoch, _best_metrics, best_net, saved_file, save_log>>
  /\ ResetMetrics
  /\ config' = IF rl_ratio # Zero
               THEN [config EXCEPT !.rl_ratio =
                       RatioMin(config.max_rl_ratio,
                                RatioPow(config.rl_ratio, config.rl_ratio_power))]
               ELSE config
  /\ LET m == MeterMean(_dev_metrics)
     IN /\ run_best' = IF FracLeq(run_best, m) THEN m ELSE run_best
        /\ since_strict' = IF epochs_run = 1 \/ FracLess(run_best, m)
                           THEN 0 ELSE since_strict + 1
        /\ since_weak' = IF FracLeq(run_best, m) THEN 0 ELSE since_weak + 1
  /\ pc' = "loop"
  /\ UNCHANGED <<saved_epoch, train_loader, dev_loader, test_loader, is_test, _epoch,
                 _n_train_examples, network, logger_closed, step, rl_ratio,
                 output, gold, evaluated, epochs_run, restores,
                 test_preds, test_golds>>

\* The while test fails: train() returns.
TrainFinish ==
  /\ pc = "loop"
  /\ ~_stop_condition(_epoch, config.patience)
  /\ pc' = "trained"
  /\ UNCHANGED <<config, saved_epoch, train_loader, dev_loader, test_loader, is_test, _epoch,
                 _best_epoch, _best_metrics, meters, _n_train_examples, network,
                 saved_file, logger_closed, step, rl_ratio, output, gold,
                 evaluated, hist>>

\* ---------------------------------------------------------------- test()
TestSkipped ==
  /\ pc = "trained"
  /\ TestSkipCondition
  /\ pc' = "done"
  /\ UNCHANGED <<config, saved_epoch, train_loader, dev_loader, test_loader, is_test, _epoch,
                 _best_epoch, _best_metrics, meters, _n_train_examples, network,
                 saved_file, logger_closed, step, rl_ratio, output, gold,
                 evaluated, hist>>

\* test() up to the start of its pass: the only_test save, the restore from
\* the checkpoint file (which raises when there is none), the meter reset.
TestBegin ==
  /\ pc = "trained"
  /\ ~TestSkipCondition
  /\ saved_file' = IF config.only_test THEN SavedFileAfterSave(OnlyTestEpoch) ELSE saved_file
  /\ save_log' = IF config.only_test THEN Append(save_log, OnlyTestEpoch) ELSE save_log
  /\ IF saved_file' = None
     THEN /\ pc' = "raised"
          /\ UNCHANGED <<network, is_test, meters, restores, step, output, gold>>
     ELSE /\ network' = saved_file'[1].net
          /\ restores' = restores + 1
          /\ is_test' = TRUE
          /\ ResetMetrics
          /\ pc' = "test_epoch"
          /\ step' = 0
          /\ output' = <<>>
          /\ gold' = <<>>
  /\ UNCHANGED <<config, saved_epoch, train_loader, dev_loader, test_loader, _epoch,
                 _best_epoch, _best_metrics, _n_train_examples, logger_closed,
                 rl_ratio, evaluated, epochs_run, scheduler_steps, run_best,
                 since_strict, since_weak, best_net, test_preds, test_golds>>

TestBatch ==
  /\ pc = "test_epoch"
  /\ step < get_num_batch(test_loader)
  /\ \E b \in Batches :
       /\ RunEpochStep(b, FALSE, config.out_predictions)
       /\ test_preds' = test_preds \o Predictions(step, b)
       /\ test_golds' = test_golds \o TargetSrc(step, b)
  /\ UNCHANGED <<config, saved_epoch, train_loader, dev_loader, test_loader, is_test, _epoch,
                 _best_epoch, _best_metrics, saved_file, logger_closed, pc,
                 rl_ratio, evaluated, epochs_run, save_log, scheduler_steps,
                 restores, run_best, since_strict, since_weak, best_net>>

\* The test pass returns: evaluate_predictions(gold, output), the report,
\* the prediction files, logger.close().
TestFinish ==
  /\ pc = "test_epoch"
  /\ step = get_num_batch(test_loader)
  /\ evaluated' = <<[gold |-> gold, output |-> output]>>
  /\ logger_closed' = TRUE
  /\ pc' = "done"
  /\ UNCHANGED <<config, saved_epoch, train_loader, dev_loader, test_loader, is_test, _epoch,
                 _best_epoch, _best_metrics, meters, _n_train_examples, network,
                 saved_file, step, rl_ratio, output, gold, hist>>

Next ==
  \/ TrainSkipped
  \/ TrainBegin
  \/ EpochBegin
  \/ TrainBatch
  \/ DevEpochBegin
  \/ DevBatch
  \/ EpochEnd
  \/ TrainFinish
  \/ TestSkipped
  \/ TestBegin
  \/ TestBatch
  \/ TestFinish

Spec == Init /\ [][Next]_vars

\* ================================================================ claims
Max(a, b) == IF a >= b THEN a ELSE b
Last(q) == q[Len(q)]

\* The epoch train() starts from: the saved epoch of a pretrained model, or 0.
StartEpoch == IF config.pretrained THEN saved_epoch ELSE 0
\* The positions of train() from its call to its return.
TrainPcs == {"idle", "loop", "train_epoch", "dev_epoch"}
\* The validation pass returns and the rest of the epoch runs.
IsEpochEnd == pc = "dev_epoch" /\ step = get_num_batch(dev_loader)

\* The steps train() can still take: the steps of one epoch times the epochs
\* max_epochs still allows, plus those left of the epoch under way.
EpochSteps == get_num_batch(train_loader) + get_num_batch(dev_loader) + 3
TrainRank ==
  CASE pc = "idle" -> (Max(0, config.max_epochs - StartEpoch) + 1) * EpochSteps + 2
    [] pc = "loop" -> Max(0, config.max_epochs - _epoch) * EpochSteps + 1
    [] pc = "train_epoch" ->
         Max(0, config.max_epochs - _epoch) * EpochSteps + 1
           + (get_num_batch(train_loader) - step) + 1 + get_num_batch(dev_loader) + 1
    [] pc = "dev_epoch" ->
         Max(0, config.max_epochs - _epoch) * EpochSteps + 1
           + (get_num_batch(dev_loader) - step) + 1
    [] OTHER -> 0

\* C1: train() terminates.  Every step of train() lowers a natural-number
\* rank and train() is never stuck; the while loop starts an epoch only when
\* _epoch < max_epochs and _epoch < _best_epoch + patience and leaves only
\* when that fails; at most max(0, max_epochs - s) epochs are run and _epoch
\* never exceeds max(max_epochs, s), s being the start epoch.
C1_TrainTerminates ==
  /\ [](epochs_run <= Max(0, config.max_epochs - StartEpoch))
  /\ [](_epoch <= Max(config.max_epochs, StartEpoch))
  /\ [](pc \in TrainPcs => ENABLED Next)
  /\ [][epochs_run' # epochs_run =>
         (_epoch < config.max_epochs /\ _epoch < _best_epoch + config.patience)]_vars
  /\ [][(pc = "loop" /\ pc' = "trained") =>
         ~(_epoch < config.max_epochs /\ _epoch < _best_epoch + config.patience)]_vars
  /\ [][(pc \in TrainPcs) => (TrainRank' >= 0 /\ TrainRank' < TrainRank)]_vars

\* Termination stated directly, for the specification in which train() and
\* test(), running on one thread, take every step they can: train() returns.
FairSpec == Spec /\ WF_vars(Next)
TrainReturns == <>(pc \notin TrainPcs)

\* train() has returned after running every epoch max_epochs allowed.
C1_Witness ==
  /\ pc = "trained"
  /\ config.pretrained
  /\ epochs_run >= 2
  /\ epochs_run = config.max_epochs - StartEpoch

C3_CheckpointIsBest ==
  /\ [][IsEpochEnd =>
          IF config.save_params
          THEN /\ (save_log' # save_log)
                    <=> FracLeq(_best_metrics, MeterMean(_dev_metrics))
               /\ (save_log' # save_log) => save_log' = Append(save_log, _epoch)
          ELSE save_log' = save_log]_vars
  /\ [][(pc \in TrainPcs /\ ~IsEpochEnd) => save_log' = save_log]_vars
  /\ []((pc \in {"loop", "trained"} /\ config.save_params /\ _best_epoch > StartEpoch)
          => (save_log # <<>> /\ Last(save_log) = _best_epoch))
  /\ []((pc \in TrainPcs \cup {"trained"} /\ ~config.save_params) => save_log = <<>>)

\* Between epochs, with two checkpoints written and an epoch that wrote none.
C3_Witness ==
  /\ pc = "loop"
  /\ config.save_params
  /\ Len(save_log) >= 2
  /\ epochs_run > Len(save_log)

\* C4 as stated: whenever test() runs its pass after a train() that updated
\* the best, the network it evaluates is the one train() had at _best_epoch.
C4_TestEvaluatesBest ==
  (pc = "test_epoch" /\ _best_epoch > StartEpoch) => network = best_net

\* C5 as stated: evaluate_predictions gets the predictions and targets of
\* every non-empty test batch, in batch order, and the training and
\* validation passes return two empty lists.
C5_EvaluatesAllTestBatches ==
  /\ evaluated # None =>
       (evaluated[1].output = test_preds /\ evaluated[1].gold = test_golds)
  /\ pc \in {"train_epoch", "dev_epoch"} => (output = <<>> /\ gold = <<>>)

\* C6: a skipped train() returns at once and leaves the epochs run, the
\* model.save and scheduler.step calls, the meters, _n_train_examples and
\* config as they were; a skipped test() returns at once and neither saves
\* nor restores, runs no batch, and leaves is_test, the meters and the
\* logger as they were.
C6_SkippedRunsChangeNothing ==
  /\ [][(pc = "idle" /\ (train_loader = None \/ dev_loader = None)) =>
          (pc' = "trained" /\
           UNCHANGED <<epochs_run, _epoch, save_log, saved_file, scheduler_steps,
                       meters, _n_train_examples, config, network, step>>)]_vars
  /\ [][(pc = "trained" /\ test_loader = None) =>
          (pc' = "done" /\
           UNCHANGED <<save_log, saved_file, restores, network, step, is_test,
                       meters, logger_closed, evaluated, test_preds>>)]_vars

\* Both calls were skipped.
C6_Witness ==
  /\ pc = "done"
  /\ train_loader = None \/ dev_loader = None
  /\ test_loader = None
  /\ epochs_run = 0
  /\ ~logger_closed

====
